---- MODULE Spec2Model ----
(***************************************************************************)
(* Model of the meteor-madness backend: the orbital-elements validator,    *)
(* the OrbitalElements constructor, the propagator (OrbitalSimulation.     *)
(* simulate), the trajectory analyzer (_process_simulation_results) and    *)
(* the two HTTP handlers that drive them.                                  *)
(*                                                                         *)
(* Numbers.  TLC has 32-bit integers only.  Lengths are whole kilometres,  *)
(* times whole seconds, angles whole degrees and the eccentricity is       *)
(* carried in hundredths (e = 20 stands for 0.20).  A Python dict is a     *)
(* function whose DOMAIN is the set of keys present.  A quotient the code  *)
(* computes in floating point is kept as an exact fraction [num, den].     *)
(* Quantities the code computes with sqrt/pi/trigonometry and that no      *)
(* operation below inspects (mean motion, period, radians) are kept as     *)
(* symbolic terms of their arguments.                                      *)
(***************************************************************************)
EXTENDS Integers, Sequences, FiniteSets, TLC

VARIABLES
    pc,          \* position of the request / call in flight
    req,         \* the input: entry point, elements dict, duration, timestep
    validation,  \* what validate_orbital_elements returned (or None)
    simArg,      \* the elements dict run_simulation was invoked with (or None)
    body,        \* the OrbitalElements object built by from_dict (or None)
    raw,         \* what OrbitalSimulation.simulate returned (or None)
    result,      \* what run_simulation returned (or None)
    response,    \* the HTTP response of the handler (or None)
    kepler,      \* the frame of a solve_kepler_equation call (or None)
    services,    \* the module-level service instances of app.py and their fields
    calls,       \* concurrent calls on the services: input, state, output of each
    frames,      \* the local variables of each concurrent call in flight
    gui          \* the InteractiveOrbitalSimulation object and its animation (or None)

vars == <<pc, req, validation, simArg, body, raw, result, response,
          kepler, services, calls, frames, gui>>

\* the state of one request through the pipeline
pipelineVars == <<pc, req, validation, simArg, body, raw, result, response>>

\* the state the request pipeline never touches
otherVars == <<kepler, services, calls, frames, gui>>

None == [kind |-> "none"]

(***************************** bounds **************************************)
\* durations range over -1..MaxDuration seconds, timesteps over -1..MaxTimestep
MaxDuration == 4
MaxTimestep == 3

(************************** program constants ******************************)
EARTH_RADIUS == 6371        \* self.earth_radius, km
MAX_A == 1000000000         \* 1e9 km, the validator's practical bound on a
E_ONE == 100                \* the eccentricity 1, in hundredths
DEFAULT_MU == 398600        \* 3.986004418e5 km^3/s^2, whole part

RequiredFields == <<"a", "e", "i", "omega", "Omega", "M0">>

(************************** arithmetic helpers *****************************)
Abs(x) == IF x < 0 THEN -x ELSE x

Sign(x) == IF x < 0 THEN -1 ELSE IF x = 0 THEN 0 ELSE 1

\* ceil(x / y) for y # 0, as numpy computes the length of arange
CeilDiv(x, y) ==
    LET p == IF y < 0 THEN -x ELSE x
        q == Abs(y)
    IN  IF p >= 0 THEN (p + q - 1) \div q ELSE -((-p) \div q)

Max(x, y) == IF x >= y THEN x ELSE y

\* floor of the square root (math.sqrt / np.sqrt at whole-unit resolution; exact
\* on perfect squares, which is what every distance of PosSet is)
RECURSIVE SqrtBin(_, _, _)
SqrtBin(x, lo, hi) ==
    IF lo >= hi THEN lo
    ELSE LET mid == (lo + hi + 1) \div 2
         IN  IF mid * mid <= x THEN SqrtBin(x, mid, hi) ELSE SqrtBin(x, lo, mid - 1)

Sqrt(x) == SqrtBin(x, 0, 40000)

(*********************** OrbitalService (validator) ************************)
\* one range check of validate_orbital_elements: the message when it fails
ErrIf(cond, msg) == IF cond THEN <<msg>> ELSE <<>>

\* faulty variant of SemiMajorAxisErrors: a equal to the Earth radius rejected
SemiMajorAxisErrors_Strict(a) ==
    IF a <= 0 THEN <<"Semi-major axis (a) must be positive">>
    ELSE IF a <= EARTH_RADIUS
         THEN <<"Semi-major axis (a) must be greater than Earth radius (6371 km)">>
    ELSE IF a > MAX_A THEN <<"Semi-major axis (a) is too large (max 1e9 km)">>
    ELSE <<>>

SemiMajorAxisErrors(a) ==
    IF a <= 0 THEN <<"Semi-major axis (a) must be positive">>
    ELSE IF a < EARTH_RADIUS
         THEN <<"Semi-major axis (a) must be greater than Earth radius (6371 km)">>
    ELSE IF a > MAX_A THEN <<"Semi-major axis (a) is too large (max 1e9 km)">>
    ELSE <<>>

EccentricityErrors(e) ==
    ErrIf(e < 0 \/ e >= E_ONE, "Eccentricity (e) must be between 0 and 1 (exclusive)")

InclinationErrors(i) ==
    ErrIf(i < 0 \/ i > 180, "Inclination (i) must be between 0 and 180 degrees")

AngleErrors(x, msg) == ErrIf(x < 0 \/ x > 360, msg)

MissingFields(elements) == SelectSeq(RequiredFields, LAMBDA f : f \notin DOMAIN elements)

RangeErrors(elements) ==
    SemiMajorAxisErrors(elements["a"])
    \o EccentricityErrors(elements["e"])
    \o InclinationErrors(elements["i"])
    \o AngleErrors(elements["omega"],
                   "Argument of periapsis (omega) must be between 0 and 360 degrees")
    \o AngleErrors(elements["Omega"],
                   "Longitude of ascending node (Omega) must be between 0 and 360 degrees")
    \o AngleErrors(elements["M0"],
                   "Mean anomaly at epoch (M0) must be between 0 and 360 degrees")

validate_orbital_elements(elements) ==
    LET missing == MissingFields(elements)
    IN  IF missing # <<>>
        THEN [valid  |-> FALSE,
              errors |-> [k \in 1..Len(missing) |-> "Missing required field: " \o missing[k]]]
        ELSE LET errors == RangeErrors(elements)
             IN  [valid |-> (Len(errors) = 0), errors |-> errors]

(************************ OrbitalElements (model) **************************)
\* math.radians(deg), math.sqrt(mu / a**3) and 2*pi/n as terms of their arguments
Radians(deg) == [rad_of_deg |-> deg]

MeanMotion(mu, a) == [sqrt_mu_over_a3 |-> <<mu, a>>]

Period(n) == [two_pi_over |-> n]

\* the exception __init__ raises, or "" when it completes: mu / (a**3) divides by
\* zero for a = 0, math.sqrt rejects a negative quotient, and 2*pi/n divides by
\* zero when n = 0
InitRaises(a, mu) ==
    IF a = 0 THEN "float division by zero"
    ELSE IF Sign(mu) * Sign(a) < 0 THEN "math domain error"
    ELSE IF mu = 0 THEN "float division by zero"
    ELSE ""

OrbitalElements(a, e, i, omega, Omega, M0, mu) ==
    LET n == MeanMotion(mu, a)
    IN  [kind |-> "elements", a |-> a, e |-> e,
         i |-> Radians(i), omega |-> Radians(omega), Omega |-> Radians(Omega),
         M0 |-> Radians(M0), mu |-> mu, n |-> n, T |-> Period(n)]

\* data.get('mu', 3.986004418e5)
GetMu(data) == IF "mu" \in DOMAIN data THEN data["mu"] ELSE DEFAULT_MU

\* the first key from_dict reads that data lacks (KeyError), or "" when none
FirstMissing(data) ==
    LET missing == MissingFields(data)
    IN  IF missing = <<>> THEN "" ELSE missing[1]

\* OrbitalElements.from_dict: [ok, value] or [ok = FALSE, error]
from_dict(data) ==
    IF FirstMissing(data) # ""
    THEN [ok |-> FALSE, error |-> "KeyError: " \o FirstMissing(data)]
    ELSE IF InitRaises(data["a"], GetMu(data)) # ""
    THEN [ok |-> FALSE, error |-> InitRaises(data["a"], GetMu(data))]
    ELSE [ok |-> TRUE,
          value |-> OrbitalElements(data["a"], data["e"], data["i"], data["omega"],
                                    data["Omega"], data["M0"], GetMu(data))]

\* OrbitalElements.get_orbital_info: the altitudes are a*(1 -+ e) - 6371, kept here
\* in hundredths of a kilometre because e is in hundredths
get_orbital_info(el) ==
    LET perigee_altitude == el.a * (E_ONE - el.e) - EARTH_RADIUS * E_ONE
        apogee_altitude  == el.a * (E_ONE + el.e) - EARTH_RADIUS * E_ONE
        will_impact      == perigee_altitude < 0
    IN  [semi_major_axis   |-> el.a,
         eccentricity      |-> el.e,
         perigee_altitude  |-> perigee_altitude,
         apogee_altitude   |-> apogee_altitude,
         will_impact_earth |-> will_impact,
         impact_depth      |-> IF will_impact THEN Abs(perigee_altitude) ELSE 0]

(*********************** OrbitalSimulation.simulate ************************)
\* faulty variants of ArangeLen: the end point included, and the quotient truncated
ArangeLen_Inclusive(start, stop, step) == Max(0, ((stop - start) \div step) + 1)

ArangeLen_Truncated(start, stop, step) == Max(0, (stop - start) \div step)

\* len(np.arange(start, stop, step)) for step # 0
ArangeLen(start, stop, step) == Max(0, CeilDiv(stop - start, step))

\* np.arange(start, stop, step) for step # 0: start + k*step, k = 0 .. len-1
Arange(start, stop, step) ==
    [k \in 1..ArangeLen(start, stop, step) |-> start + (k - 1) * step]

\* positions orbital_to_cartesian may return.  The analyzer reads nothing of a
\* position but its coordinates, so the propagator's output is any sequence over
\* this set; every point has a whole-number norm: 6371 (on the surface, twice),
\* 6370 (below it), 6372 and 7000 (above it)
PosSet == { <<6371, 0, 0>>, <<2645, 5796, 0>>, <<0, 0, 6370>>,
            <<0, 6372, 0>>, <<4200, 0, 5600>> }

\* the exception orbital_to_cartesian(elements, t) raises, or "": math.sqrt(1 - e)
\* and math.sqrt(1 + e) reject a negative argument, and with e = 1 the first
\* Newton step divides by df = 1 - e*cos(E) = 0 when E = M = M0 + n*t = 0
SampleRaises(elements, t) ==
    IF elements.e = E_ONE /\ elements.M0 = Radians(0) /\ t = 0
    THEN "float division by zero"
    ELSE IF elements.e > E_ONE \/ elements.e < -E_ONE THEN "math domain error"
    ELSE ""

\* the first sample time at which orbital_to_cartesian raises, as a sequence of
\* at most one error
FirstSampleError(elements, times) ==
    LET bad == SelectSeq(times, LAMBDA t : SampleRaises(elements, t) # "")
    IN  IF bad = <<>> THEN <<>> ELSE <<SampleRaises(elements, bad[1])>>

\* simulate(duration, time_step) given the position computed for each sample:
\* np.arange raises for a zero step, and the loop stops at the first sample
\* whose position cannot be computed
simulate(elements, duration, time_step, positions) ==
    IF time_step = 0
    THEN [ok |-> FALSE, error |-> "division by zero"]
    ELSE IF FirstSampleError(elements, Arange(0, duration, time_step)) # <<>>
    THEN [ok |-> FALSE,
          error |-> FirstSampleError(elements, Arange(0, duration, time_step))[1]]
    ELSE [ok |-> TRUE,
          value |-> [times     |-> Arange(0, duration, time_step),
                     positions |-> positions]]

(***************** SimulationService._process_simulation_results ***********)
Frac(num, den) == [num |-> num, den |-> den]

Norm(p) == Sqrt(p[1] * p[1] + p[2] * p[2] + p[3] * p[3])

Minus(p, q) == <<p[1] - q[1], p[2] - q[2], p[3] - q[3]>>

RECURSIVE SumSeq(_)
SumSeq(s) == IF s = <<>> THEN 0 ELSE s[1] + SumSeq(Tail(s))

\* np.sqrt(np.sum(positions**2, axis=1))
Distances(positions) == [k \in 1..Len(positions) |-> Norm(positions[k])]

\* lines 189-193: the finite differences over dt = times[1] - times[0], or [0]
Velocities(positions, times) ==
    IF Len(positions) > 1
    THEN LET dt == times[2] - times[1]
         IN  [k \in 1..(Len(positions) - 1) |->
                  Frac(Norm(Minus(positions[k + 1], positions[k])), dt)]
    ELSE <<Frac(0, 1)>>

\* np.mean of fractions that share one denominator
Mean(fracs) ==
    Frac(SumSeq([k \in 1..Len(fracs) |-> fracs[k].num]), fracs[1].den * Len(fracs))

\* faulty variant of ImpactPoints: a sample exactly on the surface is not an impact
ImpactPoints_Strict(distances) ==
    SelectSeq([k \in 1..Len(distances) |-> k], LAMBDA k : distances[k] < EARTH_RADIUS)

\* np.where(distances <= self.earth_radius)[0], as 1-based indices in order
ImpactPoints(distances) ==
    SelectSeq([k \in 1..Len(distances) |-> k], LAMBDA k : distances[k] <= EARTH_RADIUS)

\* faulty variant of ArgMin: the search stops at the first impact sample
ArgMin_Truncated(xs) ==
    LET hits == ImpactPoints(xs)
        last == IF hits = <<>> THEN Len(xs) ELSE hits[1]
    IN  CHOOSE k \in 1..last :
            /\ \A j \in 1..last : xs[k] <= xs[j]
            /\ \A j \in 1..(k - 1) : xs[j] > xs[k]

\* np.argmin / np.argmax: the first index attaining the extremum (1-based)
ArgMin(xs) ==
    CHOOSE k \in 1..Len(xs) :
        /\ \A j \in 1..Len(xs) : xs[k] <= xs[j]
        /\ \A j \in 1..(k - 1) : xs[j] > xs[k]

ArgMax(xs) ==
    CHOOSE k \in 1..Len(xs) :
        /\ \A j \in 1..Len(xs) : xs[k] >= xs[j]
        /\ \A j \in 1..(k - 1) : xs[j] < xs[k]

\* faulty variant of ExtremaIndices: the two indices exchanged
ExtremaIndices_Swapped(distances) ==
    [min |-> ArgMax(distances), max |-> ArgMin(distances)]

\* lines 203-204: min_distance_idx, max_distance_idx
ExtremaIndices(distances) == [min |-> ArgMin(distances), max |-> ArgMax(distances)]

\* faulty variant of Extremum: the time is read at another index than the rest
Extremum_Misaligned(idx, times, positions, distances, altitudes) ==
    [time     |-> times[1],
     position |-> positions[idx],
     distance |-> distances[idx],
     altitude |-> altitudes[idx]]

\* the periapsis / apoapsis record, lines 217-228
Extremum(idx, times, positions, distances, altitudes) ==
    [time     |-> times[idx],
     position |-> positions[idx],
     distance |-> distances[idx],
     altitude |-> altitudes[idx]]

\* faulty variant of ReportedVelocities: the placeholder [0] of a single-sample
\* trajectory is reported
ReportedVelocities_Placeholder(velocities) ==
    IF Len(velocities) >= 1 THEN velocities ELSE <<>>

\* "velocities": velocities.tolist() if len(velocities) > 1 else []
ReportedVelocities(velocities) == IF Len(velocities) > 1 THEN velocities ELSE <<>>

\* "avg_velocity": float(np.mean(velocities)) if len(velocities) > 1 else 0
AvgVelocity(velocities) == IF Len(velocities) > 1 THEN Mean(velocities) ELSE Frac(0, 1)

\* the impact record; Python indices are 0-based
Impact(impact_points, times, positions) ==
    IF Len(impact_points) > 0
    THEN LET first_impact_index == impact_points[1]
         IN  [will_impact     |-> TRUE,
              impact_time     |-> <<times[first_impact_index]>>,
              impact_position |-> <<positions[first_impact_index]>>,
              impact_index    |-> <<first_impact_index - 1>>]
    ELSE [will_impact |-> FALSE, impact_time |-> <<>>, impact_position |-> <<>>,
          impact_index |-> <<>>]

\* _process_simulation_results(raw_results, elements).  With no sample,
\* np.sum(positions**2, axis=1) raises (the array has one dimension only).
\* An optional value (None or x) is <<>> or <<x>>.
process_simulation_results(raw_results, elements) ==
    LET positions  == raw_results.positions
        times      == raw_results.times
    IN  IF Len(positions) = 0
        THEN [ok |-> FALSE, error |-> "axis 1 is out of bounds for array of dimension 1"]
        ELSE
        LET distances  == Distances(positions)
            velocities == Velocities(positions, times)
            altitudes  == [k \in 1..Len(distances) |-> distances[k] - EARTH_RADIUS]
            impact_points    == ImpactPoints(distances)
            min_distance_idx == ExtremaIndices(distances).min
            max_distance_idx == ExtremaIndices(distances).max
        IN  [ok |-> TRUE,
             value |->
               [trajectory |->
                  [times      |-> times,
                   positions  |-> positions,
                   distances  |-> distances,
                   velocities |-> ReportedVelocities(velocities),
                   altitudes  |-> altitudes],
                analysis |->
                  [min_altitude |-> altitudes[ArgMin(altitudes)],
                   max_altitude |-> altitudes[ArgMax(altitudes)],
                   min_distance |-> distances[ArgMin(distances)],
                   max_distance |-> distances[ArgMax(distances)],
                   avg_velocity |-> AvgVelocity(velocities),
                   periapsis |-> Extremum(min_distance_idx, times, positions,
                                          distances, altitudes),
                   apoapsis  |-> Extremum(max_distance_idx, times, positions,
                                          distances, altitudes),
                   impact    |-> Impact(impact_points, times, positions)],
                orbital_info |-> get_orbital_info(elements)]]

(******************************* inputs ************************************)
Dict(a, e, i, omega, Omega, M0) ==
    [a |-> a, e |-> e, i |-> i, omega |-> omega, Omega |-> Omega, M0 |-> M0]

\* d without the keys of drop
Without(d, drop) == [f \in (DOMAIN d) \ drop |-> d[f]]

\* d with mu set
WithMu(d, mu) == [f \in (DOMAIN d) \cup {"mu"} |-> IF f = "mu" THEN mu ELSE d[f]]

\* element records submitted to the simulation: the test fixture (a = 7000,
\* e = 0.2), a circular orbit, the crash preset's a = 6000, out-of-domain a and e,
\* a record with a key missing, and records carrying their own mu
SimElements ==
    { Dict(a, e, 45, 0, 0, 0) : a \in {-7000, 0, 6000, 7000}, e \in {-10, 0, 20, 100} }
    \cup { Without(Dict(7000, 20, 45, 0, 0, 0), {"omega"}) }
    \cup { WithMu(Dict(7000, 20, 45, 0, 0, 0), mu) : mu \in {0, 132712} }

Durations == -1..MaxDuration

Timesteps == -1..MaxTimestep

(****************************** the system *********************************)
\* OrbitalService.__init__ and SimulationService.__init__ (app.py builds one
\* instance of each when the module is loaded)
InitialServices ==
    [orbital_service    |-> [earth_radius |-> EARTH_RADIUS, earth_mu |-> DEFAULT_MU],
     simulation_service |-> [earth_radius |-> EARTH_RADIUS]]

\* no solver call and no concurrent call in flight
InitOther ==
    /\ kepler = None
    /\ services = InitialServices
    /\ gui = None
    /\ calls = <<>>
    /\ frames = <<>>

Init ==
    /\ InitOther
    /\ pc = "idle"
    /\ req = None
    /\ validation = None
    /\ simArg = None
    /\ body = None
    /\ raw = None
    /\ result = None
    /\ response = None

\* POST /api/orbital/simulate arrives with elements, duration and timestep
ApiRequest ==
    /\ pc = "idle"
    /\ UNCHANGED otherVars
    /\ \E el \in SimElements, d \in Durations, ts \in Timesteps :
           req' = [entry |-> "api", has_elements |-> TRUE, elements |-> el,
                   duration |-> d, timestep |-> ts]
    /\ pc' = "validate"
    /\ UNCHANGED <<validation, simArg, body, raw, result, response>>

\* POST /api/orbital/simulate arrives without 'elements': 400 at once
ApiRequestNoElements ==
    /\ pc = "idle"
    /\ UNCHANGED otherVars
    /\ req' = [entry |-> "api", has_elements |-> FALSE]
    /\ response' = [status |-> 400, error |-> "Missing required field 'elements'"]
    /\ pc' = "done"
    /\ UNCHANGED <<validation, simArg, body, raw, result>>

\* faulty variant of Validate: the 400 is prepared but the handler does not return
Validate_NoReturn ==
    /\ pc = "validate"
    /\ UNCHANGED otherVars
    /\ validation' = validate_orbital_elements(req.elements)
    /\ simArg' = req.elements
    /\ pc' = "from_dict"
    /\ UNCHANGED <<req, body, raw, result, response>>

\* simulate_orbit, lines 100-111: validate, answer 400 or invoke run_simulation
Validate ==
    /\ pc = "validate"
    /\ UNCHANGED otherVars
    /\ validation' = validate_orbital_elements(req.elements)
    /\ IF ~validation'.valid
       THEN /\ response' = [status |-> 400, error |-> "Invalid orbital elements",
                            details |-> validation'.errors]
            /\ pc' = "done"
            /\ UNCHANGED simArg
       ELSE /\ simArg' = req.elements
            /\ pc' = "from_dict"
            /\ UNCHANGED response
    /\ UNCHANGED <<req, body, raw, result>>

\* run_simulation called directly, as test_setup.py does (no validation)
DirectCall ==
    /\ pc = "idle"
    /\ UNCHANGED otherVars
    /\ \E el \in SimElements, d \in Durations, ts \in Timesteps :
           /\ req' = [entry |-> "direct", has_elements |-> TRUE, elements |-> el,
                      duration |-> d, timestep |-> ts]
           /\ simArg' = el
    /\ pc' = "from_dict"
    /\ UNCHANGED <<validation, body, raw, result, response>>

\* faulty variant of Failure: the failure also carries (empty) data fields
Failure_Partial(error) ==
    [success |-> FALSE, error |-> error, data |-> None, total_points |-> 0]

\* the except clause of run_simulation
Failure(error) == [success |-> FALSE, error |-> error]

\* run_simulation, line 144
FromDict ==
    /\ pc = "from_dict"
    /\ UNCHANGED otherVars
    /\ LET r == from_dict(simArg)
       IN  IF r.ok
           THEN body' = r.value /\ pc' = "simulate" /\ UNCHANGED result
           ELSE result' = Failure(r.error) /\ pc' = "return" /\ UNCHANGED body
    /\ UNCHANGED <<req, validation, simArg, raw, response>>

\* run_simulation, lines 147-150
Simulate ==
    /\ pc = "simulate"
    /\ UNCHANGED otherVars
    /\ LET n == IF req.timestep = 0 THEN 0 ELSE ArangeLen(0, req.duration, req.timestep)
       IN  \E positions \in [1..n -> PosSet] :
               LET r == simulate(body, req.duration, req.timestep, positions)
               IN  IF r.ok
                   THEN raw' = r.value /\ pc' = "process" /\ UNCHANGED result
                   ELSE result' = Failure(r.error) /\ pc' = "return" /\ UNCHANGED raw
    /\ UNCHANGED <<req, validation, simArg, body, response>>

\* run_simulation, lines 153-162
Process ==
    /\ pc = "process"
    /\ UNCHANGED otherVars
    /\ LET r == process_simulation_results(raw, body)
       IN  IF r.ok
           THEN result' = [success |-> TRUE, data |-> r.value,
                           total_points |-> Len(raw.times),
                           orbital_period |-> body.T]
           ELSE result' = Failure(r.error)
    /\ pc' = "return"
    /\ UNCHANGED <<req, validation, simArg, body, raw, response>>

\* run_simulation returns; simulate_orbit, lines 113-129, answers 500 or 200
Return ==
    /\ pc = "return"
    /\ UNCHANGED otherVars
    /\ IF req.entry = "api"
       THEN IF ~result.success
            THEN response' = [status |-> 500, error |-> "Simulation failed",
                              details |-> result.error]
            ELSE response' = [status |-> 200, success |-> TRUE, data |-> result.data,
                              metadata |-> [elements |-> req.elements,
                                            duration |-> req.duration,
                                            timestep |-> req.timestep,
                                            total_points |-> result.total_points,
                                            orbital_period |-> result.orbital_period]]
       ELSE UNCHANGED response
    /\ pc' = "done"
    /\ UNCHANGED <<req, validation, simArg, body, raw, result>>

\* the request is over; nothing of it is kept (the services hold no state)
NextRequest ==
    /\ pc = "done"
    /\ UNCHANGED otherVars
    /\ pc' = "idle"
    /\ req' = None
    /\ validation' = None
    /\ simArg' = None
    /\ body' = None
    /\ raw' = None
    /\ result' = None
    /\ response' = None

Next ==
    \/ ApiRequest
    \/ ApiRequestNoElements
    \/ Validate
    \/ DirectCall
    \/ FromDict
    \/ Simulate
    \/ Process
    \/ Return
    \/ NextRequest

Spec == Init /\ [][Next]_vars

(************* the validator applied to boundary-value records *************)
\* records whose fields sit on and around every bound the validator tests,
\* with any subset of the keys absent
ValElements ==
    { Without(Dict(a, e, i, omega, Omega, M0), drop) :
        a \in {-1, 0, 6370, 6371, 1000000000, 1000000001},
        e \in {-1, 0, 99, 100},
        i \in {-1, 0, 180, 181},
        omega \in {-1, 0, 360, 361},
        Omega \in {-1, 360, 361},
        M0 \in {0, 360, 361},
        drop \in {{}, {"a"}, {"e"}, {"M0"}, {"i", "Omega"}, {"a", "omega", "M0"},
                  {"a", "e", "i", "omega", "Omega", "M0"}} }

InitValidator ==
    /\ InitOther
    /\ pc = "validator_call"
    /\ req \in {[entry |-> "validator", has_elements |-> TRUE, elements |-> el] :
                   el \in ValElements}
    /\ validation = None
    /\ simArg = None
    /\ body = None
    /\ raw = None
    /\ result = None
    /\ response = None

\* OrbitalService.validate_orbital_elements(elements) returns
ValidateElements ==
    /\ pc = "validator_call"
    /\ UNCHANGED otherVars
    /\ validation' = validate_orbital_elements(req.elements)
    /\ pc' = "validator_done"
    /\ UNCHANGED <<req, simArg, body, raw, result, response>>

NextValidator == ValidateElements

SpecValidator == InitValidator /\ [][NextValidator]_vars

(*************** OrbitalSimulation.solve_kepler_equation *******************)
\* Angles of the solver are carried in units of half the tolerance 1e-8, so the
\* tolerance is 2 units.  sin and cos are not computable here: for e # 0 the next
\* Newton iterate is any point of the grid; for e = 0 the update
\* E - (E - 0*sin(E) - M) / (1 - 0*cos(E)) is computed.
MAX_ITERATIONS == 50        \* range(50)
TOLERANCE == 2              \* tolerance = 1e-8, in units of 0.5e-8

\* the grid of anomalies: -MaxAnomaly..MaxAnomaly
MaxAnomaly == 3

KeplerGrid == (-MaxAnomaly)..MaxAnomaly

\* eccentricities given to the solver, in hundredths: circular, elliptical,
\* near-parabolic, and the parabolic e = 1 outside its contract
KeplerEccentricities == {0, 50, 99, 100}

\* faulty variant of InitialGuess: the iteration starts at 0
InitialGuess_Zero(M) == 0

\* E = M
InitialGuess(M) == M

\* df = 1 - e*cos(E) is zero: e = 1 and cos(E) = 1
ZeroDerivative(E, e) == e = E_ONE /\ E = 0

\* the values E_new = E - f/df may take
NewtonStep(E, M, e) == IF e = 0 THEN {E - (E - M)} ELSE KeplerGrid

\* faulty variant of Converged: a step of exactly the tolerance accepted
Converged_Inclusive(E_new, E) == Abs(E_new - E) <= TOLERANCE

\* abs(E_new - E) < tolerance
Converged(E_new, E) == Abs(E_new - E) < TOLERANCE

InitKepler ==
    /\ pc = "kepler"
    /\ req = None
    /\ validation = None
    /\ simArg = None
    /\ body = None
    /\ raw = None
    /\ result = None
    /\ response = None
    /\ services = InitialServices
    /\ gui = None
    /\ calls = <<>>
    /\ frames = <<>>
    /\ \E M \in KeplerGrid, e \in KeplerEccentricities :
           kepler = [status |-> "loop", M |-> M, e |-> e, E |-> InitialGuess(M),
                     E_prev |-> InitialGuess(M), iterations |-> 0]

\* one pass of the loop body, lines 26-34; E_prev and E are the last two
\* iterates, E being the value returned when the pass converges
KeplerIterate ==
    /\ kepler.status = "loop"
    /\ kepler.iterations < MAX_ITERATIONS
    /\ IF ZeroDerivative(kepler.E, kepler.e)
       THEN kepler' = [kepler EXCEPT !.status = "raised",
                                     !.iterations = kepler.iterations + 1]
       ELSE \E E_new \in NewtonStep(kepler.E, kepler.M, kepler.e) :
                kepler' = [kepler EXCEPT
                              !.status = IF Converged(E_new, kepler.E)
                                         THEN "returned" ELSE "loop",
                              !.E_prev = kepler.E,
                              !.E = E_new,
                              !.iterations = kepler.iterations + 1]
    /\ UNCHANGED <<pipelineVars, services, calls, frames, gui>>

\* the loop is exhausted: return E, line 36
KeplerExhausted ==
    /\ kepler.status = "loop"
    /\ kepler.iterations = MAX_ITERATIONS
    /\ kepler' = [kepler EXCEPT !.status = "returned"]
    /\ UNCHANGED <<pipelineVars, services, calls, frames, gui>>

\* what the solver's own run establishes about the residual |E - e*sin(E) - M| of
\* the value it returns, in units of 0.5e-8, as a sequence of at most one bound:
\* for e = 0 the residual is |E - M|; after a converged pass the Taylor remainder
\* gives |f(E_new)| <= e/2 * (E_new - E)^2, far below one unit for a step under
\* the tolerance; the value returned at line 36 was never tested and has none
ResidualBound(frame) ==
    IF frame.e = 0 THEN <<Abs(frame.E - frame.M)>>
    ELSE IF Converged(frame.E, frame.E_prev) THEN <<0>>
    ELSE <<>>

NextKepler == KeplerIterate \/ KeplerExhausted

SpecKepler == InitKepler /\ [][NextKepler]_vars

(************* concurrent calls on the module-level services ***************)
\* app.py builds one OrbitalService and one SimulationService at import time and
\* every request handler calls them; the server handles requests in threads, so
\* the statements of several calls interleave.  A call's parameters and local
\* variables (elements, simulation, raw_results) live in its own frame.
NumCalls == 2

Callers == 1..NumCalls

\* faulty variant of Local: every call keeps its locals in one shared place
Local_Shared(c) == 1

\* the frame holding the parameters and locals of call c
Local(c) == c

\* run_simulation as one sequential computation, lines 143-168, given the
\* positions the orbit passes through
run_simulation(elements_dict, duration, timestep, positions) ==
    LET r1 == from_dict(elements_dict)
    IN  IF ~r1.ok THEN Failure(r1.error)
        ELSE
        LET r2 == simulate(r1.value, duration, timestep, positions)
        IN  IF ~r2.ok THEN Failure(r2.error)
            ELSE
            LET r3 == process_simulation_results(r2.value, r1.value)
            IN  IF ~r3.ok THEN Failure(r3.error)
                ELSE [success |-> TRUE, data |-> r3.value,
                      total_points |-> Len(r2.value.times),
                      orbital_period |-> r1.value.T]

SimulateInput(el, d, ts, positions) ==
    [kind |-> "run_simulation", elements |-> el, duration |-> d, timestep |-> ts,
     positions |-> positions]

ValidateInput(el) == [kind |-> "validate_orbital_elements", elements |-> el]

\* the calls made concurrently: successful runs of different lengths (one with an
\* impact), runs failing in each of the three stages, and validations
ConcurrentInputs ==
    { SimulateInput(Dict(7000, 20, 45, 0, 0, 0), 2, 1,
                    << <<4200, 0, 5600>>, <<0, 6372, 0>> >>),
      SimulateInput(Dict(7000, 20, 45, 0, 0, 0), 3, 1,
                    << <<4200, 0, 5600>>, <<0, 0, 6370>>, <<6371, 0, 0>> >>),
      SimulateInput(Dict(0, 20, 45, 0, 0, 0), 2, 1, <<>>),
      SimulateInput(Dict(7000, 20, 45, 0, 0, 0), 2, 0, <<>>),
      SimulateInput(Dict(7000, 20, 45, 0, 0, 0), 2, -1, <<>>),
      ValidateInput(Dict(7000, 20, 45, 0, 0, 0)),
      ValidateInput(Dict(6000, 20, 45, 0, 0, 0)),
      ValidateInput(Without(Dict(7000, 20, 45, 0, 0, 0), {"omega"})) }

\* what the call returns when no other call runs
RunAlone(input) ==
    IF input.kind = "run_simulation"
    THEN run_simulation(input.elements, input.duration, input.timestep,
                        input.positions)
    ELSE validate_orbital_elements(input.elements)

EmptyFrame == [args |-> None, body |-> None, raw |-> None]

InitConcurrent ==
    /\ pc = "serving"
    /\ req = None
    /\ validation = None
    /\ simArg = None
    /\ body = None
    /\ raw = None
    /\ result = None
    /\ response = None
    /\ kepler = None
    /\ services = InitialServices
    /\ gui = None
    /\ calls \in [Callers -> { [input |-> inp, state |-> "called", output |-> None] :
                                 inp \in ConcurrentInputs }]
    /\ frames = [c \in Callers |-> EmptyFrame]

\* the call is entered: its arguments are bound to its parameters
CallEnter(c) ==
    /\ calls[c].state = "called"
    /\ frames' = [frames EXCEPT ![Local(c)] = [EmptyFrame EXCEPT !.args = calls[c].input]]
    /\ calls' = [calls EXCEPT ![c].state =
                     IF calls[c].input.kind = "run_simulation"
                     THEN "from_dict" ELSE "validate"]
    /\ UNCHANGED <<pipelineVars, kepler, services, gui>>

\* validate_orbital_elements, orbital_service.py lines 16-71: reads earth_radius
CallValidate(c) ==
    /\ calls[c].state = "validate"
    /\ calls' = [calls EXCEPT
                    ![c].state = "returned",
                    ![c].output = validate_orbital_elements(frames[Local(c)].args.elements)]
    /\ UNCHANGED <<pipelineVars, kepler, services, frames, gui>>

\* run_simulation, line 144
CallFromDict(c) ==
    /\ calls[c].state = "from_dict"
    /\ LET r == from_dict(frames[Local(c)].args.elements)
       IN  IF r.ok
           THEN /\ frames' = [frames EXCEPT ![Local(c)].body = r.value]
                /\ calls' = [calls EXCEPT ![c].state = "simulate"]
           ELSE /\ calls' = [calls EXCEPT ![c].state = "returned",
                                          ![c].output = Failure(r.error)]
                /\ UNCHANGED frames
    /\ UNCHANGED <<pipelineVars, kepler, services, gui>>

\* run_simulation, lines 147-150
CallSimulate(c) ==
    /\ calls[c].state = "simulate"
    /\ LET f == frames[Local(c)]
           r == simulate(f.body, f.args.duration, f.args.timestep, f.args.positions)
       IN  IF r.ok
           THEN /\ frames' = [frames EXCEPT ![Local(c)].raw = r.value]
                /\ calls' = [calls EXCEPT ![c].state = "process"]
           ELSE /\ calls' = [calls EXCEPT ![c].state = "returned",
                                          ![c].output = Failure(r.error)]
                /\ UNCHANGED frames
    /\ UNCHANGED <<pipelineVars, kepler, services, gui>>

\* run_simulation, lines 153-168: reads earth_radius
CallProcess(c) ==
    /\ calls[c].state = "process"
    /\ LET f == frames[Local(c)]
           r == process_simulation_results(f.raw, f.body)
       IN  calls' = [calls EXCEPT
                        ![c].state = "returned",
                        ![c].output =
                            IF r.ok
                            THEN [success |-> TRUE, data |-> r.value,
                                  total_points |-> Len(f.raw.times),
                                  orbital_period |-> f.body.T]
                            ELSE Failure(r.error)]
    /\ UNCHANGED <<pipelineVars, kepler, services, frames, gui>>

NextConcurrent ==
    \E c \in Callers :
        \/ CallEnter(c)
        \/ CallValidate(c)
        \/ CallFromDict(c)
        \/ CallSimulate(c)
        \/ CallProcess(c)

SpecConcurrent == InitConcurrent /\ [][NextConcurrent]_vars

(************ math.radians / math.degrees in double precision **************)
\* math.radians(x) is the double product x * (pi/180) and math.degrees(x) the
\* double product x * (180/pi), each rounded to nearest, ties to even.  A double
\* is [mant, exp]: 53 mantissa bits, least significant first, the value being
\* mant * 2^exp; zero has an all-zero mantissa.  Only non-negative whole numbers
\* of degrees are converted here.
MantBits == 53

Pow2(k) == IF k = 0 THEN 1 ELSE 2^k

\* the low 16 bits of a number, least significant first
Bits16(x) == [k \in 1..16 |-> (x \div Pow2(k - 1)) % 2]

\* the position of the highest set bit, 0 for zero
BitLen(b) ==
    LET set == { k \in 1..Len(b) : b[k] = 1 }
    IN  IF set = {} THEN 0 ELSE CHOOSE k \in set : \A j \in set : j <= k

\* limbs of LimbBits bits, least significant first, so that a sum of limb
\* products stays below 2^31
LimbBits == 13

LimbBase == 8192

BitAt(b, k) == IF k \in 1..Len(b) THEN b[k] ELSE 0

\* limb j of a bit string
Limb(b, j) ==
    LET g(i) == BitAt(b, LimbBits * (j - 1) + i)
    IN  g(1) + 2 * g(2) + 4 * g(3) + 8 * g(4) + 16 * g(5) + 32 * g(6) + 64 * g(7)
        + 128 * g(8) + 256 * g(9) + 512 * g(10) + 1024 * g(11) + 2048 * g(12)
        + 4096 * g(13)

NumLimbs(b) == CeilDiv(Len(b), LimbBits)

\* the sum of the limb products contributing to limb k of a product
Column(a, b, k) ==
    LET RECURSIVE Sum(_)
        Sum(j) == IF j > NumLimbs(a) THEN 0
                  ELSE (IF k - j + 1 \in 1..NumLimbs(b)
                        THEN Limb(a, j) * Limb(b, k - j + 1) ELSE 0) + Sum(j + 1)
    IN  Sum(1)

RECURSIVE MulLimbs(_, _, _, _, _)
\* the limbs of the exact product of two bit strings, column by column with carry
MulLimbs(a, b, k, carry, acc) ==
    IF k > NumLimbs(a) + NumLimbs(b) THEN acc
    ELSE LET sum == Column(a, b, k) + carry
         IN  MulLimbs(a, b, k + 1, sum \div LimbBase, Append(acc, sum % LimbBase))

\* the exact product of two bit strings
MulBits(a, b) ==
    LET limbs == MulLimbs(a, b, 1, 0, <<>>)
    IN  [k \in 1..(LimbBits * Len(limbs)) |->
            (limbs[((k - 1) \div LimbBits) + 1] \div Pow2((k - 1) % LimbBits)) % 2]

\* bits + 1 (same length; all ones wrap to zero)
Increment(b) ==
    [k \in 1..Len(b) |-> IF \A j \in 1..(k - 1) : b[j] = 1 THEN 1 - b[k] ELSE b[k]]

ZeroDouble == [mant |-> [k \in 1..MantBits |-> 0], exp |-> 0]

\* the double nearest to bits * 2^exp, ties to even
RoundNearestEven(bits, exp) ==
    LET h == BitLen(bits)
        s == h - MantBits
        kept == [k \in 1..MantBits |-> IF k + s >= 1 THEN bits[k + s] ELSE 0]
        guard == IF s >= 1 THEN bits[s] ELSE 0
        sticky == \E j \in 1..(s - 1) : bits[j] = 1
        up == guard = 1 /\ (sticky \/ kept[1] = 1)
    IN  IF h = 0 THEN ZeroDouble
        ELSE IF ~up THEN [mant |-> kept, exp |-> exp + s]
        ELSE IF \A k \in 1..MantBits : kept[k] = 1
        THEN [mant |-> [k \in 1..MantBits |-> IF k = MantBits THEN 1 ELSE 0],
              exp |-> exp + s + 1]
        ELSE [mant |-> Increment(kept), exp |-> exp + s]

\* the double of a whole number 0 <= x < 2^16 (always exact)
Double(x) == RoundNearestEven(Bits16(x), 0)

\* x * y in double precision
FlMul(x, y) == RoundNearestEven(MulBits(x.mant, y.mant), x.exp + y.exp)

\* pi/180 as a double: 0x1.1df46a2529d39p-6
DEG_TO_RAD ==
    [mant |-> SubSeq(Bits16(40249) \o Bits16(41554) \o Bits16(57158) \o Bits16(17),
                     1, MantBits),
     exp |-> -58]

\* 180/pi as a double: 0x1.ca5dc1a63c1f8p+5
RAD_TO_DEG ==
    [mant |-> SubSeq(Bits16(49656) \o Bits16(6755) \o Bits16(42460) \o Bits16(28),
                     1, MantBits),
     exp |-> -47]

\* the double stored by self.i = math.radians(i)
StoredRadians(term) == FlMul(Double(term.rad_of_deg), DEG_TO_RAD)

\* math.degrees(self.i)
Degrees(term) == FlMul(StoredRadians(term), RAD_TO_DEG)

\* OrbitalElements.to_dict
to_dict(el) ==
    [a |-> el.a, e |-> el.e,
     i |-> Degrees(el.i), omega |-> Degrees(el.omega),
     Omega |-> Degrees(el.Omega), M0 |-> Degrees(el.M0),
     mu |-> el.mu, n |-> el.n, T |-> el.T]

(******************** the life of an OrbitalElements object ****************)
\* One object is built from a record and then used, in any order and any number
\* of times, by the calls that take it: to_dict, get_orbital_info, simulate,
\* orbital_to_cartesian and _process_simulation_results.  body is the object,
\* raw the latest simulate result, result the latest call and what it returned.
ObjectAngles == {0, 30, 45, 180}

ObjectElements ==
    { Dict(a, 20, i, omega, 0, M0) :
          a \in {7000, 0}, i \in ObjectAngles, omega \in {0, 90}, M0 \in {0, 28} }
    \cup { WithMu(Dict(7000, 20, 45, 0, 0, 0), 132712),
           Without(Dict(7000, 20, 45, 0, 0, 0), {"omega"}) }

\* the trajectories simulate is asked for: one and two samples, one second apart
ObjectTrajectories ==
    { << <<4200, 0, 5600>> >>,
      << <<4200, 0, 5600>>, <<0, 6372, 0>> >>,
      << <<6371, 0, 0>>, <<0, 0, 6370>> >> }

Called(name, value) == [call |-> name, value |-> value]

InitObject ==
    /\ InitOther
    /\ pc = "new"
    /\ \E d \in ObjectElements : req = [elements |-> d]
    /\ validation = None
    /\ simArg = None
    /\ body = None
    /\ raw = None
    /\ result = None
    /\ response = None

\* OrbitalElements.from_dict(d): the constructor sets every field, n and T included
Construct ==
    /\ pc = "new"
    /\ LET r == from_dict(req.elements)
       IN  IF r.ok
           THEN body' = r.value /\ pc' = "live" /\ UNCHANGED result
           ELSE result' = Called("from_dict", Failure(r.error)) /\ pc' = "raised"
                /\ UNCHANGED body
    /\ UNCHANGED <<req, validation, simArg, raw, response, otherVars>>

\* faulty variant of ToDictCall: the angles are converted in place
ToDictCall_InPlace ==
    /\ pc = "live"
    /\ result' = Called("to_dict", to_dict(body))
    /\ body' = [body EXCEPT !.i = result'.value.i, !.omega = result'.value.omega,
                            !.Omega = result'.value.Omega, !.M0 = result'.value.M0]
    /\ pc' = "converted"
    /\ UNCHANGED <<req, validation, simArg, raw, response, otherVars>>

\* elements.to_dict()
ToDictCall ==
    /\ pc = "live"
    /\ result' = Called("to_dict", to_dict(body))
    /\ UNCHANGED <<pc, req, validation, simArg, body, raw, response, otherVars>>

\* elements.get_orbital_info()
GetOrbitalInfoCall ==
    /\ pc = "live"
    /\ result' = Called("get_orbital_info", get_orbital_info(body))
    /\ UNCHANGED <<pc, req, validation, simArg, body, raw, response, otherVars>>

\* OrbitalSimulation(elements).simulate(duration, 1)
SimulateCall ==
    /\ pc = "live"
    /\ \E positions \in ObjectTrajectories :
           LET r == simulate(body, Len(positions), 1, positions)
           IN  IF r.ok
               THEN raw' = r.value /\ result' = Called("simulate", r.value)
               ELSE result' = Called("simulate", Failure(r.error)) /\ UNCHANGED raw
    /\ UNCHANGED <<pc, req, validation, simArg, body, response, otherVars>>

\* simulation.orbital_to_cartesian(elements, t)
OrbitalToCartesianCall ==
    /\ pc = "live"
    /\ \E t \in 0..1 :
           IF SampleRaises(body, t) # ""
           THEN result' = Called("orbital_to_cartesian", Failure(SampleRaises(body, t)))
           ELSE \E pos \in PosSet : result' = Called("orbital_to_cartesian", pos)
    /\ UNCHANGED <<pc, req, validation, simArg, body, raw, response, otherVars>>

\* simulation_service._process_simulation_results(raw_results, elements)
ProcessCall ==
    /\ pc = "live"
    /\ raw # None
    /\ result' = Called("_process_simulation_results",
                        process_simulation_results(raw, body))
    /\ UNCHANGED <<pc, req, validation, simArg, body, raw, response, otherVars>>

NextObject ==
    \/ Construct
    \/ ToDictCall
    \/ GetOrbitalInfoCall
    \/ SimulateCall
    \/ OrbitalToCartesianCall
    \/ ProcessCall

SpecObject == InitObject /\ [][NextObject]_vars

(*************** OrbitalSimulation.mean_to_true_anomaly ********************)
\* Angles in whole degrees.  The call is followed where its value is computable:
\* for e = 0, where the solver returns E = M and the two square roots are both 1,
\* and for E a multiple of 180 degrees, where sin(E/2) or cos(E/2) vanishes; in
\* both cases 2*atan2(k1*sin(E/2), k2*cos(E/2)) with k1, k2 > 0 is E/2 brought
\* into [-180, 180] by atan2, doubled.
MaxMeanAnomaly == 800

MeanAnomalies == (-MaxMeanAnomaly)..MaxMeanAnomaly

\* faulty variant of TrueAnomaly: the half angle is not brought into atan2's range
TrueAnomaly_Unwrapped(E, e) == E

\* nu = 2 * math.atan2(math.sqrt(1 + e) * math.sin(E/2), math.sqrt(1 - e) * math.cos(E/2));
\* math.sin of a positive odd multiple of pi is positive and of a negative one
\* negative, so atan2 keeps the sign of E at the ends of its range
TrueAnomaly(E, e) ==
    LET r == ((E + 360) % 720) - 360
    IN  IF r = -360 /\ E > 0 THEN 360 ELSE r

InitAnomaly ==
    /\ pc = "mean_to_true_anomaly"
    /\ req = None
    /\ validation = None
    /\ simArg = None
    /\ body = None
    /\ raw = None
    /\ result = None
    /\ response = None
    /\ services = InitialServices
    /\ gui = None
    /\ calls = <<>>
    /\ frames = <<>>
    /\ \E M \in MeanAnomalies, e \in {0, 50} :
           /\ (e = 0 \/ M % 180 = 0)
           /\ kepler = [at |-> "solve", M |-> M, e |-> e]

\* E = self.solve_kepler_equation(M, e): f = E - e*sin(E) - M is zero at E = M in
\* the cases followed, so the first pass returns M
AnomalySolve ==
    /\ kepler.at = "solve"
    /\ kepler' = [at |-> "atan2", M |-> kepler.M, e |-> kepler.e, E |-> kepler.M]
    /\ UNCHANGED <<pipelineVars, services, calls, frames, gui>>

\* lines 43-48
AnomalyReturn ==
    /\ kepler.at = "atan2"
    /\ kepler' = [at |-> "returned", M |-> kepler.M, e |-> kepler.e, E |-> kepler.E,
                  nu |-> TrueAnomaly(kepler.E, kepler.e)]
    /\ UNCHANGED <<pipelineVars, services, calls, frames, gui>>

NextAnomaly == AnomalySolve \/ AnomalyReturn

SpecAnomaly == InitAnomaly /\ [][NextAnomaly]_vars

(*************** OrbitalSimulation.orbital_to_cartesian ********************)
\* The position at one sample, computed exactly.  An angle of rotation is given
\* by its cosine and sine as a pair of fifths, <<c, s>> with c*c + s*s = 25: the
\* quarter turns and the angles of the 3-4-5 triangle in every quadrant.  A
\* vector is [x, y, z, den], its coordinates being x/den, y/den, z/den km.
TRIG_DEN == 5

Directions ==
    { d \in ((-TRIG_DEN)..TRIG_DEN) \X ((-TRIG_DEN)..TRIG_DEN) :
          d[1] * d[1] + d[2] * d[2] = TRIG_DEN * TRIG_DEN }

\* math.cos and math.sin of a whole multiple of 180 degrees
CosDeg(deg) == IF deg % 360 = 0 THEN 1 ELSE -1

\* r = a * (1 - e**2) / (1 + e * math.cos(nu)) with e in hundredths and cos(nu) = +-1;
\* the quotient is the whole number a*(1 - e) or a*(1 + e) for a a multiple of 100
OrbitalRadius(a, e, cos_nu) ==
    (a * (E_ONE * E_ONE - e * e)) \div (E_ONE * (E_ONE + e * cos_nu))

\* faulty variant of RotateZ: the second row takes the cosine for both terms
RotateZ_Sheared(v, dir) ==
    [x |-> v.x * dir[1] - v.y * dir[2],
     y |-> v.x * dir[1] + v.y * dir[1],
     z |-> v.z * TRIG_DEN,
     den |-> v.den * TRIG_DEN]

\* x' = x*cos - y*sin, y' = x*sin + y*cos, z' = z (lines 83-85 and 91-93)
RotateZ(v, dir) ==
    [x |-> v.x * dir[1] - v.y * dir[2],
     y |-> v.x * dir[2] + v.y * dir[1],
     z |-> v.z * TRIG_DEN,
     den |-> v.den * TRIG_DEN]

\* x' = x, y' = y*cos - z*sin, z' = y*sin + z*cos (lines 87-89)
RotateX(v, dir) ==
    [x |-> v.x * TRIG_DEN,
     y |-> v.y * dir[1] - v.z * dir[2],
     z |-> v.y * dir[2] + v.z * dir[1],
     den |-> v.den * TRIG_DEN]

\* orbital_to_cartesian(elements, t) for M0 + n*t a whole multiple of 180
\* degrees, where E = M and nu = TrueAnomaly(M, e) have sine 0
orbital_to_cartesian(elements, M) ==
    LET nu == TrueAnomaly(M, elements.e)
        r  == OrbitalRadius(elements.a, elements.e, CosDeg(nu))
        orbital == [x |-> r * CosDeg(nu), y |-> 0, z |-> 0, den |-> 1]
    IN  RotateZ(RotateX(RotateZ(orbital, elements.omega), elements.i), elements.Omega)

\* n*n for |n| < 10^8 as the digits <<low, middle, high>> in base 10^4 before
\* carrying, and sums of such numbers carried to a normal form
WIDE_BASE == 10000

WideSquare(n) ==
    LET h == Abs(n) \div WIDE_BASE
        l == Abs(n) % WIDE_BASE
    IN  <<l * l, 2 * h * l, h * h>>

WideNormal(w) ==
    LET c1 == w[2] + (w[1] \div WIDE_BASE)
    IN  <<w[1] % WIDE_BASE, c1 % WIDE_BASE, w[3] + (c1 \div WIDE_BASE)>>

\* x*x + y*y + z*z of the numerators of a vector
NormSquared(v) ==
    LET sx == WideSquare(v.x)
        sy == WideSquare(v.y)
        sz == WideSquare(v.z)
    IN  WideNormal(<<sx[1] + sy[1] + sz[1], sx[2] + sy[2] + sz[2], sx[3] + sy[3] + sz[3]>>)

\* the elements given to orbital_to_cartesian: M0 at periapsis or apoapsis
CartesianElements ==
    [a : {7000, 26600}, e : {0, 20, 50}, M0 : {0, 180},
     i : Directions, omega : Directions, Omega : Directions]

InitCartesian ==
    /\ InitOther
    /\ pc = "orbital_to_cartesian"
    /\ req = None
    /\ validation = None
    /\ simArg = None
    /\ body \in CartesianElements
    /\ raw = None
    /\ result = None
    /\ response = None

\* the first sample of simulate: orbital_to_cartesian(self.body, 0)
FirstSample ==
    /\ pc = "orbital_to_cartesian"
    /\ result' = orbital_to_cartesian(body, body.M0)
    /\ pc' = "sampled"
    /\ UNCHANGED <<req, validation, simArg, body, raw, response, otherVars>>

NextCartesian == FirstSample

SpecCartesian == InitCartesian /\ [][NextCartesian]_vars

(************* run_simulation with the solver calls followed ***************)
\* One run of run_simulation on accepted elements, sample by sample.  Each sample
\* calls solve_kepler_equation once; kepler is the list of how those calls ended:
\* by the convergence test (line 32) or by exhausting range(50) (line 36).  For
\* e = 0 the first pass converges; otherwise both endings are possible.
SolverEndings(e) ==
    IF e = 0 THEN { [converged |-> TRUE, iterations |-> 1] }
    ELSE { [converged |-> TRUE, iterations |-> 1],
           [converged |-> TRUE, iterations |-> MAX_ITERATIONS],
           [converged |-> FALSE, iterations |-> MAX_ITERATIONS] }

FollowedElements ==
    { Dict(7000, 0, 45, 0, 0, 15), Dict(7000, 99, 45, 0, 0, 15) }

FollowedPositions == { <<4200, 0, 5600>>, <<0, 6372, 0>> }

InitFollowed ==
    /\ pc = "sampling"
    /\ \E el \in FollowedElements, d \in 1..MaxDuration :
           /\ req = [entry |-> "direct", has_elements |-> TRUE, elements |-> el,
                     duration |-> d, timestep |-> 1]
           /\ simArg = el
           /\ body = from_dict(el).value
    /\ validation = None
    /\ raw = [times |-> Arange(0, req.duration, req.timestep), positions |-> <<>>]
    /\ result = None
    /\ response = None
    /\ kepler = <<>>
    /\ services = InitialServices
    /\ gui = None
    /\ calls = <<>>
    /\ frames = <<>>

\* simulate, lines 112-115: one pass of the loop over times
FollowedSample ==
    /\ pc = "sampling"
    /\ Len(raw.positions) < Len(raw.times)
    /\ \E ending \in SolverEndings(body.e), pos \in FollowedPositions :
           /\ kepler' = Append(kepler, ending)
           /\ raw' = [raw EXCEPT !.positions = Append(raw.positions, pos)]
    /\ UNCHANGED <<pc, req, validation, simArg, body, result, response,
                   services, calls, frames, gui>>

\* simulate returns; run_simulation, lines 153-162
FollowedProcess ==
    /\ pc = "sampling"
    /\ Len(raw.positions) = Len(raw.times)
    /\ LET r == process_simulation_results(raw, body)
       IN  IF r.ok
           THEN result' = [success |-> TRUE, data |-> r.value,
                           total_points |-> Len(raw.times),
                           orbital_period |-> body.T]
           ELSE result' = Failure(r.error)
    /\ pc' = "return"
    /\ UNCHANGED <<req, validation, simArg, body, raw, response, otherVars>>

NextFollowed == FollowedSample \/ FollowedProcess

SpecFollowed == InitFollowed /\ [][NextFollowed]_vars

(**************** element sets the backend publishes ***********************)
\* The presets of get_orbital_presets and the simulation_elements of
\* /api/impactor/2025, in the units of this module: e rounded down to hundredths
\* (0.0003 -> 0), angles rounded to whole degrees (28.5 -> 29, 51.6 -> 52,
\* 63.4 -> 63, 12.64 -> 13), a of the impactor rounded to whole km, its mu
\* (1.32712440018e11) in units of 10^6.  No rounded value crosses a limit of the
\* validator.
get_orbital_presets ==
    [default       |-> Dict(7000, 20, 29, 0, 0, 0),
     iss           |-> Dict(6778, 0, 52, 0, 0, 0),
     geostationary |-> Dict(42164, 0, 0, 0, 0, 0),
     molniya       |-> Dict(26600, 74, 63, 270, 0, 0),
     polar         |-> Dict(8000, 10, 90, 0, 0, 0),
     crash         |-> Dict(6000, 60, 45, 0, 0, 0)]

\* impactor_data["simulation_elements"], app.py lines 296-304
ImpactorSimulationElements == WithMu(Dict(373922988, 60, 3, 0, 13, -1), 132712)

PublishedElements ==
    { get_orbital_presets[name] : name \in DOMAIN get_orbital_presets }
    \cup { ImpactorSimulationElements }

\* a client posts a published element set to /api/orbital/simulate
PublishedRequest ==
    /\ pc = "idle"
    /\ UNCHANGED otherVars
    /\ \E el \in PublishedElements, d \in 1..2 :
           req' = [entry |-> "api", has_elements |-> TRUE, elements |-> el,
                   duration |-> d, timestep |-> 1]
    /\ pc' = "validate"
    /\ UNCHANGED <<validation, simArg, body, raw, result, response>>

NextPublished ==
    \/ PublishedRequest
    \/ Validate
    \/ FromDict
    \/ Simulate
    \/ Process
    \/ Return

SpecPublished == Init /\ [][NextPublished]_vars

(********** run_simulation with the sample position computed ***************)
\* A run of one sample (duration 1, timestep 1, so t = 0) on elements whose
\* angles are quarter turns and whose M0 is 0 or 180 degrees: the position of the
\* sample is then computed by orbital_to_cartesian instead of being left open.
QuarterTurns == {0, 90, 180, 270}

\* <<cos, sin>> in fifths of an angle stored by math.radians(deg), deg a quarter turn
DirectionOf(term) ==
    LET deg == term.rad_of_deg % 360
    IN  IF deg = 0 THEN <<TRIG_DEN, 0>>
        ELSE IF deg = 90 THEN <<0, TRIG_DEN>>
        ELSE IF deg = 180 THEN <<-TRIG_DEN, 0>>
        ELSE <<0, -TRIG_DEN>>

\* the sample of the elements object at t = 0, in whole km
SampleAtEpoch(elements) ==
    LET v == orbital_to_cartesian([a |-> elements.a, e |-> elements.e,
                                   i |-> DirectionOf(elements.i),
                                   omega |-> DirectionOf(elements.omega),
                                   Omega |-> DirectionOf(elements.Omega)],
                                  elements.M0.rad_of_deg)
    IN  <<v.x \div v.den, v.y \div v.den, v.z \div v.den>>

\* orbits tangent to the surface, above it, crossing it, and inside it
ComputedElements ==
    { Dict(ae[1], ae[2], i, omega, Omega, M0) :
          ae \in { <<6371, 0>>, <<7000, 0>>, <<7000, 20>>, <<6000, 0>>, <<7000, 9>> },
          i \in QuarterTurns \ {270}, omega \in QuarterTurns, Omega \in QuarterTurns,
          M0 \in {0, 180} }

\* run_simulation(elements, 1, 1) is called
ComputedCall ==
    /\ pc = "idle"
    /\ UNCHANGED otherVars
    /\ \E el \in ComputedElements :
           /\ req' = [entry |-> "direct", has_elements |-> TRUE, elements |-> el,
                      duration |-> 1, timestep |-> 1]
           /\ simArg' = el
    /\ pc' = "from_dict"
    /\ UNCHANGED <<validation, body, raw, result, response>>

\* run_simulation, lines 147-150, the one sample computed
SimulateComputed ==
    /\ pc = "simulate"
    /\ UNCHANGED otherVars
    /\ LET r == simulate(body, req.duration, req.timestep, <<SampleAtEpoch(body)>>)
       IN  IF r.ok
           THEN raw' = r.value /\ pc' = "process" /\ UNCHANGED result
           ELSE result' = Failure(r.error) /\ pc' = "return" /\ UNCHANGED raw
    /\ UNCHANGED <<req, validation, simArg, body, response>>

NextComputed ==
    \/ ComputedCall
    \/ FromDict
    \/ SimulateComputed
    \/ Process
    \/ Return

SpecComputed == Init /\ [][NextComputed]_vars

(******************* InteractiveOrbitalSimulation **************************)
\* The animation controls of the interactive simulator.  gui holds the fields
\* is_playing, current_frame and animation of the object, the value of the speed
\* slider, the frame on screen (drawn) and, as history, the first frame shown
\* since the animation was last reset (first_shown) and whether the last event
\* was that reset (after_reset).  A FuncAnimation is
\* [running, frame, interval]: whether its timer runs, the next frame its timer
\* will hand to animate_satellite, and its interval in ms; it is created with
\* its timer started and repeat=True.  The constructor has run update_simulation,
\* so current_results is set.
MaxFrames == 4

\* values of the speed slider (1 to 60 FPS)
SliderSpeeds == {1, 30, 60}

INITIAL_SPEED == 30

\* max(1, int(1000 / fps))
Interval(fps) == Max(1, 1000 \div fps)

\* FuncAnimation(fig, animate_satellite, frames=len(times), interval, repeat=True)
FuncAnimation(interval) == [running |-> TRUE, frame |-> 0, interval |-> interval]

InitInteractive ==
    /\ pc = "interactive"
    /\ req = None
    /\ validation = None
    /\ simArg = None
    /\ body = None
    /\ raw = None
    /\ result = None
    /\ response = None
    /\ kepler = None
    /\ services = <<>>
    /\ calls = <<>>
    /\ frames = <<>>
    /\ gui = [is_playing |-> FALSE, current_frame |-> 0, animation |-> <<>>,
              speed |-> INITIAL_SPEED, drawn |-> 0, first_shown |-> <<>>,
              after_reset |-> FALSE]

GuiFrame == <<pipelineVars, kepler, services, calls, frames>>

\* start_animation, lines 264-285
StartAnimation ==
    /\ pc = "interactive"
    /\ IF ~gui.is_playing
       THEN IF gui.animation = <<>>
            THEN gui' = [gui EXCEPT !.is_playing = TRUE, !.after_reset = FALSE,
                                    !.animation = <<FuncAnimation(Interval(gui.speed))>>]
            ELSE gui' = [gui EXCEPT !.is_playing = TRUE, !.after_reset = FALSE,
                                    !.animation[1].running = TRUE]
       ELSE gui' = [gui EXCEPT !.after_reset = FALSE]
    /\ UNCHANGED GuiFrame

\* pause_animation, lines 287-291
PauseAnimation ==
    /\ pc = "interactive"
    /\ IF gui.animation # <<>> /\ gui.is_playing
       THEN gui' = [gui EXCEPT !.is_playing = FALSE, !.after_reset = FALSE,
                               !.animation[1].running = FALSE]
       ELSE gui' = [gui EXCEPT !.after_reset = FALSE]
    /\ UNCHANGED GuiFrame

\* reset_animation, lines 293-302: the animation is paused, not rewound
ResetAnimation ==
    /\ pc = "interactive"
    /\ gui' = [gui EXCEPT !.is_playing = FALSE,
                          !.current_frame = 0,
                          !.drawn = 0,
                          !.first_shown = <<>>,
                          !.after_reset = TRUE,
                          !.animation = IF gui.animation = <<>> THEN <<>>
                                        ELSE <<[gui.animation[1] EXCEPT !.running = FALSE]>>]
    /\ UNCHANGED GuiFrame

\* change_speed, lines 304-327: with an animation present a new one replaces it
ChangeSpeed ==
    /\ pc = "interactive"
    /\ \E val \in SliderSpeeds :
           IF gui.animation # <<>>
           THEN gui' = [gui EXCEPT !.speed = val, !.after_reset = FALSE,
                                   !.animation = <<FuncAnimation(Interval(val))>>]
           ELSE gui' = [gui EXCEPT !.speed = val, !.after_reset = FALSE]
    /\ UNCHANGED GuiFrame

\* the timer of the running animation fires: animate_satellite(frame), lines 329-334
TimerTick ==
    /\ pc = "interactive"
    /\ gui.animation # <<>>
    /\ gui.animation[1].running
    /\ LET frame == gui.animation[1].frame
       IN  gui' = [gui EXCEPT !.current_frame = frame,
                              !.after_reset = FALSE,
                              !.drawn = frame,
                              !.first_shown = IF gui.first_shown = <<>> THEN <<frame>>
                                              ELSE gui.first_shown,
                              !.animation[1].frame = (frame + 1) % MaxFrames]
    /\ UNCHANGED GuiFrame

NextInteractive ==
    \/ StartAnimation
    \/ PauseAnimation
    \/ ResetAnimation
    \/ ChangeSpeed
    \/ TimerTick

SpecInteractive == InitInteractive /\ [][NextInteractive]_vars

(******************* NasaNeoService._build_response ************************)

\* The orbit section of an SBDB payload is a list of entries {name, value}.  A
\* value is null, a JSON number or a string; a string either spells a number
\* (text = <<n>>) or does not (text = <<>>).  The semi-major axis is in tenths
\* of an astronomical unit, the eccentricity in hundredths, angles in degrees.
Num(n) == [kind |-> "num", v |-> n]

Str(text) == [kind |-> "str", text |-> text]

\* AU_IN_KM = 149_597_870.7: hundredths of a km in a tenth of an astronomical
\* unit, 1 495 978 707, as digits <<low, middle, high>> in base 10^4
AU_IN_KM == <<8707, 9597, 14>>

SOLAR_MU == 132712          \* 1.32712440018e11 km^3/s^2, in units of 10^6

\* required_keys, in the order of the dict literal
required_keys == <<"a", "e", "i", "w", "om", "ma">>

_coerce_number(value) ==
    IF value = None THEN None
    ELSE IF value.kind = "num" THEN value
    ELSE IF value.text # <<>> THEN Num(value.text[1])
    ELSE value

\* the loop of _element_list_to_dict over the entries left to read; an entry
\* without a name is skipped and a later entry replaces an earlier one
RECURSIVE ParseEntries(_, _)
ParseEntries(entries, parsed) ==
    IF entries = <<>> THEN parsed
    ELSE LET entry == Head(entries)
         IN  IF entry.name = ""
             THEN ParseEntries(Tail(entries), parsed)
             ELSE ParseEntries(Tail(entries),
                               (entry.name :> _coerce_number(entry.value)) @@ parsed)

_element_list_to_dict(elements) ==
    IF elements = <<>> THEN <<>> ELSE ParseEntries(elements, <<>>)

\* elements.get(original)
ElementGet(elements, original) ==
    IF original \in DOMAIN elements THEN elements[original] ELSE None

\* float(value) of a value kept by _coerce_number: a string left there spells
\* no number and float raises ValueError (the empty tuple)
Float(value) == IF value.kind = "num" THEN <<value.v>> ELSE <<>>

\* float(elements["a"]) * AU_IN_KM, in hundredths of a km
AuToKm(a) == WideNormal(<<a * AU_IN_KM[1], a * AU_IN_KM[2], a * AU_IN_KM[3]>>)

\* faulty variant of Missing: a key is missing when its value is falsy
Missing_Falsy(elements) ==
    SelectSeq(required_keys,
              LAMBDA original : \/ ElementGet(elements, original) = None
                                \/ ElementGet(elements, original) = Num(0))

Missing(elements) ==
    SelectSeq(required_keys, LAMBDA original : ElementGet(elements, original) = None)

_extract_simulation_elements(elements) ==
    LET missing == Missing(elements)
    IN  IF missing # <<>>
        THEN [raised |-> FALSE, simulation_elements |-> None, missing |-> missing]
        ELSE IF \E k \in 1..Len(required_keys) : Float(elements[required_keys[k]]) = <<>>
        THEN [raised |-> TRUE]
        ELSE [raised |-> FALSE,
              simulation_elements |->
                  [a     |-> AuToKm(Float(elements["a"])[1]),
                   e     |-> Float(elements["e"])[1],
                   i     |-> Float(elements["i"])[1],
                   omega |-> Float(elements["w"])[1],
                   Omega |-> Float(elements["om"])[1],
                   M0    |-> Float(elements["ma"])[1],
                   mu    |-> SOLAR_MU],
              missing |-> <<>>]

\* the part of the response made from the orbit elements; missing or None
_build_response(payload) ==
    LET elements_dict == _element_list_to_dict(payload)
        extracted     == _extract_simulation_elements(elements_dict)
    IN  IF extracted.raised THEN [raised |-> "ValueError"]
        ELSE [orbit |-> [elements |-> elements_dict],
              simulation_elements |-> extracted.simulation_elements,
              missing_for_simulation |->
                  IF extracted.missing = <<>> THEN None
                  ELSE [kind |-> "list", items |-> extracted.missing]]

\* what a payload can hold for one name, whose number is n: no entry, null,
\* the number, a string spelling the number, a string spelling no number
SourceValues(n) ==
    {[kind |-> "absent"], None, Num(n), Str(<<n>>), Str(<<>>)}

\* the list of entries: the six names in SBDB's order without the absent ones
\* (a = 2.5 au, e = 0.60, i = 3, w = 13, om = 0, ma = 359 degrees), then the
\* perihelion distance and an entry with no name
NeoPayloads ==
    { SelectSeq([k \in 1..Len(required_keys) |->
                     [name |-> required_keys[k], value |-> c[k]]],
                LAMBDA entry : entry.value.kind # "absent")
          \o <<[name |-> "q", value |-> Str(<<10>>)], [name |-> "", value |-> Num(1)]>> :
      c \in SourceValues(25) \X SourceValues(60) \X SourceValues(3)
              \X SourceValues(13) \X SourceValues(0) \X SourceValues(359) }

InitNeo ==
    /\ InitOther
    /\ pc = "build_response"
    /\ req \in NeoPayloads
    /\ validation = None
    /\ simArg = None
    /\ body = None
    /\ raw = None
    /\ result = None
    /\ response = None

\* fetch_object: processed = self._build_response(payload)
BuildResponse ==
    /\ pc = "build_response"
    /\ response' = _build_response(req)
    /\ pc' = IF "raised" \in DOMAIN response' THEN "raised" ELSE "response_built"
    /\ UNCHANGED <<req, validation, simArg, body, raw, result, otherVars>>

NextNeo == BuildResponse

SpecNeo == InitNeo /\ [][NextNeo]_vars

(******************************* claims ************************************)
\* the propagator returned a trajectory for a positive duration and timestep
Propagated == raw # None /\ req.duration > 0 /\ req.timestep > 0

\* run_simulation returned success
Succeeded == result # None /\ result.success

\* C1: for duration > 0 and timestep > 0 simulate returns samples at exactly the
\* times k*timestep, k >= 0, with k*timestep < duration, strictly increasing from
\* t = 0; no sample has t >= duration, so t = duration is excluded when duration is
\* an exact multiple of timestep.
C1_SampleTimes ==
    Propagated =>
        LET times == raw.times
            d     == req.duration
            ts    == req.timestep
        IN  /\ Len(times) >= 1
            /\ times[1] = 0
            /\ \A k \in 1..Len(times) : times[k] = (k - 1) * ts /\ times[k] < d
            /\ \A k \in 0..d : (k * ts < d) => (k + 1 <= Len(times))
            /\ \A k \in 1..(Len(times) - 1) : times[k] < times[k + 1]
            /\ Len(raw.positions) = Len(times)

\* C1 witness: a duration that is an exact multiple of the timestep, end excluded
C1_Witness ==
    /\ Propagated
    /\ req.duration = 4
    /\ req.timestep = 2
    /\ raw.times = <<0, 2>>

\* C2: for every successful run_simulation with duration > 0 and timestep > 0,
\* total_points = ceil(duration / timestep) (120 for 7200 s at 60 s, 30 for 1800 s
\* at 60 s) and times, positions, distances and altitudes each have total_points
\* entries.
C2_TotalPoints ==
    /\ ArangeLen(0, 7200, 60) = 120
    /\ ArangeLen(0, 1800, 60) = 30
    /\ (Succeeded /\ req.duration > 0 /\ req.timestep > 0) =>
          LET n  == result.total_points
              tr == result.data.trajectory
          IN  /\ n * req.timestep >= req.duration
              /\ (n - 1) * req.timestep < req.duration
              /\ Len(tr.times) = n
              /\ Len(tr.positions) = n
              /\ Len(tr.distances) = n
              /\ Len(tr.altitudes) = n

\* C2 witness: a successful run whose duration is not a multiple of the timestep
C2_Witness ==
    /\ Succeeded
    /\ req.duration = 3
    /\ req.timestep = 2
    /\ result.total_points = 2

\* C3: propagation with timestep <= 0 fails with an InvalidTimestep error: the
\* propagator produces no trajectory (not even an empty one) and the failure
\* names the non-positive timestep as its cause.
C3_InvalidTimestep ==
    (body # None /\ pc \in {"process", "return", "done"} /\ req.timestep <= 0) =>
        /\ raw = None
        /\ (result # None =>
               /\ ~result.success
               /\ result.error = "InvalidTimestep")

\* C4: in POST /api/orbital/simulate validation precedes simulation: invalid
\* elements end in a 400 with the validator's error list and run_simulation is
\* never invoked; valid elements reach the simulator exactly as submitted.
C4_ValidationFirst ==
    (req # None /\ req.entry = "api" /\ req.has_elements /\ pc # "validate") =>
        IF validate_orbital_elements(req.elements).valid
        THEN /\ simArg = req.elements
             /\ validation = validate_orbital_elements(req.elements)
        ELSE /\ simArg = None /\ body = None /\ raw = None /\ result = None
             /\ pc = "done"
             /\ response.status = 400
             /\ response.details = validate_orbital_elements(req.elements).errors

\* C4 witness: an invalid record answered with 400 and no simulation
C4_Witness ==
    /\ pc = "done"
    /\ req.entry = "api"
    /\ req.has_elements
    /\ req.elements.a = 6000
    /\ response.status = 400
    /\ Len(response.details) = 1
    /\ simArg = None

\* C5: validate_orbital_elements returns valid = true exactly when all six fields
\* are present and 6371 <= a <= 1e9, 0 <= e < 1, 0 <= i <= 180 and
\* 0 <= omega, Omega, M0 <= 360; and valid is true iff the errors list is empty.
C5_ValidIffInRange ==
    pc = "validator_done" =>
        LET el == req.elements
            inRange ==
                /\ DOMAIN el = {"a", "e", "i", "omega", "Omega", "M0"}
                /\ el.a > 0 /\ 6371 <= el.a /\ el.a <= 1000000000
                /\ 0 <= el.e /\ el.e < 100
                /\ 0 <= el.i /\ el.i <= 180
                /\ 0 <= el.omega /\ el.omega <= 360
                /\ 0 <= el.Omega /\ el.Omega <= 360
                /\ 0 <= el.M0 /\ el.M0 <= 360
        IN  /\ validation.valid = inRange
            /\ validation.valid = (validation.errors = <<>>)

\* C5 witness: a record on the inclusive bounds is accepted
C5_Witness ==
    /\ pc = "validator_done"
    /\ validation.valid
    /\ req.elements.a = 6371
    /\ req.elements.i = 180
    /\ req.elements.omega = 360
    /\ req.elements.M0 = 360

\* C6: the OrbitalElements constructor never rejects out-of-domain elements:
\* constructing with a <= 0 or with e outside [0,1) completes and yields an
\* object.
C6_ConstructorNeverRejects ==
    ( /\ pc \in {"simulate", "process", "return", "done"}
      /\ simArg # None
      /\ MissingFields(simArg) = <<>>
      /\ (simArg.a <= 0 \/ simArg.e < 0 \/ simArg.e >= 100) )
    => body # None

\* C7: will_impact is true exactly when some sample has distance <= 6371
\* (equality counts); impact_index is then the smallest such index, impact_time
\* and impact_position are that sample's; otherwise all three are null.
C7_FirstImpact ==
    Succeeded =>
        LET tr   == result.data.trajectory
            imp  == result.data.analysis.impact
            hits == {k \in 1..Len(tr.distances) : tr.distances[k] <= 6371}
        IN  /\ imp.will_impact = (hits # {})
            /\ (hits # {}) =>
                  LET first == CHOOSE k \in hits : \A m \in hits : k <= m
                  IN  /\ imp.impact_index = <<first - 1>>
                      /\ imp.impact_time = <<tr.times[first]>>
                      /\ imp.impact_position = <<tr.positions[first]>>
            /\ (hits = {}) =>
                  /\ imp.impact_time = <<>>
                  /\ imp.impact_position = <<>>
                  /\ imp.impact_index = <<>>

\* C7 witness: the first impact is the second sample, exactly on the surface,
\* and a later sample is below the surface
C7_Witness ==
    /\ Succeeded
    /\ Len(result.data.trajectory.distances) >= 3
    /\ result.data.trajectory.distances[1] = 7000
    /\ result.data.trajectory.distances[2] = 6371
    /\ result.data.trajectory.distances[3] = 6370
    /\ result.data.analysis.impact.impact_index = <<1>>

\* C8: periapsis and apoapsis are the argmin and argmax of distance over the
\* entire sampled sequence, never truncated at the first impact: each is a
\* sample of the sequence and periapsis.distance <= distance[k] <=
\* apoapsis.distance for every k, the samples after an impact included.
C8_ExtremaOverAll ==
    Succeeded =>
        LET tr == result.data.trajectory
            an == result.data.analysis
            n  == Len(tr.distances)
            At(rec, k) == /\ rec.time = tr.times[k]
                          /\ rec.position = tr.positions[k]
                          /\ rec.distance = tr.distances[k]
        IN  /\ \E k \in 1..n : At(an.periapsis, k)
            /\ \E k \in 1..n : At(an.apoapsis, k)
            /\ \A k \in 1..n : /\ an.periapsis.distance <= tr.distances[k]
                               /\ tr.distances[k] <= an.apoapsis.distance

\* C8 witness: the first sample is an impact and the periapsis is a later sample
C8_Witness ==
    /\ Succeeded
    /\ req.timestep > 0
    /\ result.data.analysis.impact.impact_index = <<0>>
    /\ result.data.analysis.periapsis.time > 0
    /\ result.data.analysis.periapsis.distance = 6370

\* C9: for every successful analysis of a non-empty trajectory,
\* periapsis.distance <= apoapsis.distance.
C9_PeriapsisBelowApoapsis ==
    Succeeded =>
        result.data.analysis.periapsis.distance <= result.data.analysis.apoapsis.distance

\* C9 witness: an analysis whose periapsis is strictly below its apoapsis
C9_Witness ==
    /\ Succeeded
    /\ result.data.analysis.periapsis.distance = 6370
    /\ result.data.analysis.apoapsis.distance = 7000

\* C10: for a trajectory of n >= 1 samples the returned velocities series has
\* exactly n-1 entries, entry k being |position[k+1] - position[k]| / timestep,
\* and avg_velocity is the mean of those entries whenever n >= 2.
C10_Velocities ==
    Succeeded =>
        LET tr == result.data.trajectory
            n  == Len(tr.positions)
            v  == tr.velocities
            step(k) == Norm(Minus(tr.positions[k + 1], tr.positions[k]))
            avg == result.data.analysis.avg_velocity
        IN  /\ Len(v) = n - 1
            /\ \A k \in 1..(n - 1) : v[k].num * req.timestep = step(k) * v[k].den
            /\ (n >= 2) =>
                  avg.num * (n - 1) * req.timestep
                      = SumSeq([k \in 1..(n - 1) |-> step(k)]) * avg.den

\* run_simulation has returned for the call in flight
Returned == pc \in {"return", "done"} /\ simArg # None

\* the stage of run_simulation that raised, for a call that returned a failure
FailedStage ==
    IF body = None THEN "construction"
    ELSE IF raw = None THEN "propagation"
    ELSE "analysis"

\* C11: a single-sample trajectory (0 < duration <= timestep) is analysed
\* successfully with an empty velocities series and avg_velocity = 0, while
\* distances and altitudes have one entry each and periapsis and apoapsis both
\* refer to sample 0.
C11_SingleSample ==
    (Returned /\ raw # None /\ 0 < req.duration /\ req.duration <= req.timestep) =>
        /\ Succeeded
        /\ LET tr == result.data.trajectory
               an == result.data.analysis
           IN  /\ Len(tr.times) = 1
               /\ tr.velocities = <<>>
               /\ an.avg_velocity.num = 0
               /\ Len(tr.distances) = 1
               /\ Len(tr.altitudes) = 1
               /\ an.periapsis.time = tr.times[1]
               /\ an.periapsis.position = tr.positions[1]
               /\ an.apoapsis.time = tr.times[1]
               /\ an.apoapsis.position = tr.positions[1]

\* C11 witness: duration equal to the timestep, one sample analysed
C11_Witness ==
    /\ Succeeded
    /\ req.duration = 2
    /\ req.timestep = 2
    /\ result.total_points = 1
    /\ result.data.trajectory.velocities = <<>>

\* C14: run_simulation never returns partial or corrupt output: the result is
\* either success = true with data, total_points and orbital_period, or
\* success = false with an error and none of those fields; no exception escapes
\* (a call in flight has produced no result or response, and holds what its
\* next stage reads).
C14_AllOrNothing ==
    /\ Returned =>
          /\ result # None
          /\ IF result.success
             THEN DOMAIN result = {"success", "data", "total_points", "orbital_period"}
             ELSE DOMAIN result = {"success", "error"}
    /\ (pc \in {"from_dict", "simulate", "process"}) =>
          /\ result = None
          /\ response = None
          /\ (pc = "simulate") => (body # None)
          /\ (pc = "process") => (body # None /\ raw # None)

\* C14 witness: a failed run (zero timestep) that returned only an error
C14_Witness ==
    /\ Returned
    /\ req.timestep = 0
    /\ body # None
    /\ ~result.success
    /\ DOMAIN result = {"success", "error"}

C16_ValidatedRunsSucceed ==
    ( /\ Returned
      /\ validate_orbital_elements(simArg).valid
      /\ req.duration > 0
      /\ req.timestep > 0 )
    => (Succeeded /\ result.total_points >= 1)

\* C12: solve_kepler_equation terminates after at most 50 Newton-Raphson
\* iterations for every M and every e in [0,1): it returns as soon as two
\* successive iterates differ by less than the tolerance, and otherwise returns
\* the 50th iterate without raising an error.
C12_KeplerTerminates ==
    (kepler # None /\ kepler.e < 100) =>
        /\ kepler.iterations <= 50
        /\ kepler.status # "raised"
        /\ (kepler.status = "returned") =>
               \/ /\ kepler.iterations >= 1
                  /\ Abs(kepler.E - kepler.E_prev) < 2
               \/ kepler.iterations = 50
        /\ (kepler.status = "loop" /\ kepler.iterations >= 1) =>
               Abs(kepler.E - kepler.E_prev) >= 2

\* C12 witness: the cap was reached without convergence and the 50th iterate
\* was returned
C12_Witness ==
    /\ kepler # None
    /\ kepler.e = 99
    /\ kepler.status = "returned"
    /\ kepler.iterations = 50
    /\ Abs(kepler.E - kepler.E_prev) >= 2

\* C13: for e = 0 and every mean anomaly M, solve_kepler_equation returns E = M
\* after exactly one iteration.
C13_CircularOneIteration ==
    (kepler # None /\ kepler.e = 0) =>
        /\ kepler.iterations <= 1
        /\ (kepler.iterations = 1) => (kepler.status = "returned" /\ kepler.E = kepler.M)
        /\ kepler.status # "raised"

\* C13 witness: a circular orbit solved in one iteration at a non-zero anomaly
C13_Witness ==
    /\ kepler # None
    /\ kepler.e = 0
    /\ kepler.M = 3
    /\ kepler.status = "returned"
    /\ kepler.iterations = 1
    /\ kepler.E = 3

\* C17: under any interleaving of concurrent run_simulation and
\* validate_orbital_elements calls on the shared service instances, every call
\* returns what it returns when run alone, and no call writes a service field.
C17_CallsIndependent ==
    (calls # <<>>) =>
        /\ services = InitialServices
        /\ \A c \in DOMAIN calls :
               (calls[c].state = "returned") =>
                   (calls[c].output = RunAlone(calls[c].input))

\* C17 witness: a run has returned its successful result while a run on another
\* input, entered before it returned, is between simulate and processing
C17_Witness ==
    /\ calls # <<>>
    /\ calls[1].state = "returned"
    /\ calls[1].input.kind = "run_simulation"
    /\ calls[1].output.success
    /\ calls[2].state = "process"
    /\ calls[2].input # calls[1].input
    /\ frames[2].raw # frames[1].raw

\* C19: an OrbitalElements object is never mutated after construction: through
\* any sequence of to_dict, get_orbital_info, simulate, orbital_to_cartesian and
\* _process_simulation_results calls its fields a, e, i, omega, Omega, M0, mu, n
\* and T keep the values the constructor set, and no step after the constructor
\* assigns any of them (n and T are computed once).
C19_NeverMutated ==
    /\ [](pc \in {"live", "converted"} =>
            /\ body = from_dict(req.elements).value
            /\ DOMAIN body = {"kind", "a", "e", "i", "omega", "Omega", "M0", "mu", "n", "T"}
            /\ body.n = MeanMotion(GetMu(req.elements), req.elements["a"])
            /\ body.T = Period(body.n))
    /\ [][(pc \in {"live", "converted"}) => (body' = body)]_vars

\* C19 witness: the object has been simulated and its trajectory processed
C19_Witness ==
    /\ pc = "live"
    /\ raw # None
    /\ Len(raw.times) = 2
    /\ result # None
    /\ result.call = "_process_simulation_results"
    /\ result.value.ok

\* C20: from_dict(d).to_dict() returns the a, e, i, omega, Omega, M0 of d (angles
\* in degrees) and the mu of d, or 398600 when d has none.
C20_RoundTrip ==
    (pc = "live" /\ result # None /\ result.call = "to_dict") =>
        /\ result.value.a = req.elements["a"]
        /\ result.value.e = req.elements["e"]
        /\ result.value.i = Double(req.elements["i"])
        /\ result.value.omega = Double(req.elements["omega"])
        /\ result.value.Omega = Double(req.elements["Omega"])
        /\ result.value.M0 = Double(req.elements["M0"])
        /\ result.value.mu = GetMu(req.elements)

\* C21: for every mean anomaly M and every e in [0, 0.99], the E returned by
\* solve_kepler_equation satisfies |E - e*sin(E) - M| < 1e-6 (200 units of 0.5e-8).
C21_ResidualBelowBound ==
    (kepler # None /\ "status" \in DOMAIN kepler /\ kepler.status = "returned"
        /\ kepler.e <= 99) =>
        /\ ResidualBound(kepler) # <<>>
        /\ ResidualBound(kepler)[1] < 200

AnomalyReturned == kepler # None /\ "at" \in DOMAIN kepler /\ kepler.at = "returned"

\* C22 (as stated): for e = 0, mean_to_true_anomaly(M, 0) returns a true anomaly
\* equal to M for every M, including the unwrapped M > 360 degrees.
C22_TrueAnomalyEqualsMean ==
    (AnomalyReturned /\ kepler.e = 0) => (kepler.nu = kepler.M)

\* C22 (amended): for e = 0, mean_to_true_anomaly(M, 0) returns the angle in
\* [-360, 360] degrees that differs from M by a whole multiple of 720 degrees
\* (the same direction as M); it is M itself whenever M is within [-360, 360].
C22_TrueAnomalySameDirection ==
    (AnomalyReturned /\ kepler.e = 0) =>
        /\ kepler.nu \in (-360)..360
        /\ (kepler.nu - kepler.M) % 720 = 0
        /\ (kepler.M \in (-360)..360) => (kepler.nu = kepler.M)

\* C22 witness: an unwrapped mean anomaly of 400 degrees comes back as -320
C22_Witness ==
    /\ AnomalyReturned
    /\ kepler.e = 0
    /\ kepler.M = 400
    /\ kepler.nu = -320

\* C23: for elements with M0 = 0 the first sample (t = 0) lies at periapsis: the
\* norm of its position is a*(1 - e), whatever i, omega and Omega are.
C23_FirstSampleAtPeriapsis ==
    (pc = "sampled" /\ body.M0 = 0) =>
        NormSquared(result)
            = WideNormal(WideSquare(result.den * ((body.a * (100 - body.e)) \div 100)))

\* C23 witness: a = 7000, e = 0.2 rotated by three oblique angles, the sample
\* lying off every axis at 5600 km
C23_Witness ==
    /\ pc = "sampled"
    /\ body.M0 = 0 /\ body.a = 7000 /\ body.e = 20
    /\ body.i = <<3, 4>> /\ body.omega = <<4, 3>> /\ body.Omega = <<-3, 4>>
    /\ result.x # 0 /\ result.y # 0 /\ result.z # 0
    /\ NormSquared(result) = WideNormal(WideSquare(result.den * 5600))

\* C24: when the Kepler solver reaches its 50-iteration cap without meeting the
\* tolerance for some sample, the run still completes and the result says so:
\* it carries something beyond the fields of a converged run, by which a caller
\* can tell a best-effort result from a converged one.
C24_NonConvergenceReported ==
    (pc = "return" /\ \E k \in DOMAIN kepler : ~kepler[k].converged) =>
        /\ result.success
        /\ \/ DOMAIN result # {"success", "data", "total_points", "orbital_period"}
           \/ DOMAIN result.data # {"trajectory", "analysis", "orbital_info"}

\* C25: every element set the backend publishes (the six presets and the
\* impactor's simulation_elements) is accepted by validate_orbital_elements, so
\* posting it to /api/orbital/simulate is never answered with 400.
C25_PublishedAccepted ==
    (pc = "done" /\ req # None /\ req.elements \in PublishedElements) =>
        /\ validation.valid
        /\ response.status # 400

\* C26: whenever analysis.impact.will_impact of a result is true (some sample has
\* distance <= 6371), orbital_info.will_impact_earth of the same result is true
\* too, the tangent case (closest sample at exactly 6371) included.
C26_ImpactVerdictsAgree ==
    (Succeeded /\ result.data.analysis.impact.will_impact) =>
        result.data.orbital_info.will_impact_earth

\* the time, position, distance and altitude of sample k of a result
SampleRecord(data, k) ==
    [time     |-> data.trajectory.times[k],
     position |-> data.trajectory.positions[k],
     distance |-> data.trajectory.distances[k],
     altitude |-> data.trajectory.distances[k] - 6371]

\* C27: in every successful analysis min_distance = periapsis.distance,
\* max_distance = apoapsis.distance, min_altitude = periapsis.altitude =
\* min_distance - 6371, max_altitude = apoapsis.altitude = max_distance - 6371,
\* and each of periapsis and apoapsis is, in all its four fields, the sample at
\* the first index attaining the extremum.
C27_SummariesAgree ==
    Succeeded =>
        LET an == result.data.analysis
            ds == result.data.trajectory.distances
        IN  /\ an.min_distance = an.periapsis.distance
            /\ an.max_distance = an.apoapsis.distance
            /\ an.min_altitude = an.periapsis.altitude
            /\ an.min_altitude = an.min_distance - 6371
            /\ an.max_altitude = an.apoapsis.altitude
            /\ an.max_altitude = an.max_distance - 6371
            /\ \E k \in 1..Len(ds) :
                   /\ \A j \in 1..Len(ds) : ds[k] <= ds[j]
                   /\ \A j \in 1..(k - 1) : ds[j] > ds[k]
                   /\ an.periapsis = SampleRecord(result.data, k)
            /\ \E k \in 1..Len(ds) :
                   /\ \A j \in 1..Len(ds) : ds[k] >= ds[j]
                   /\ \A j \in 1..(k - 1) : ds[j] < ds[k]
                   /\ an.apoapsis = SampleRecord(result.data, k)

\* C27 witness: the second and third samples tie for the smallest distance at
\* different positions, and the periapsis is the second sample
C27_Witness ==
    /\ Succeeded
    /\ Len(result.data.trajectory.distances) = 3
    /\ result.data.trajectory.distances[1] = 7000
    /\ result.data.trajectory.distances[2] = 6371
    /\ result.data.trajectory.distances[3] = 6371
    /\ result.data.trajectory.positions[2] # result.data.trajectory.positions[3]
    /\ result.data.analysis.periapsis.position = result.data.trajectory.positions[2]
    /\ result.data.analysis.periapsis.time = result.data.trajectory.times[2]
    /\ result.data.analysis.periapsis.time > 0

\* C28: after any sequence of Play, Pause, Reset-animation and speed-slider
\* events, is_playing is true exactly when the animation exists and its timer is
\* running.
C28_FlagMatchesTimer ==
    (pc = "interactive") =>
        (gui.is_playing <=> (gui.animation # <<>> /\ gui.animation[1].running))

\* C29: after reset_animation is_playing is false, current_frame is 0 and frame 0
\* is drawn, and the frames shown by a subsequent Play start again from frame 0.
C29_ResetRestarts ==
    (pc = "interactive") =>
        /\ gui.after_reset => (~gui.is_playing /\ gui.current_frame = 0 /\ gui.drawn = 0)
        /\ (gui.first_shown # <<>>) => (gui.first_shown[1] = 0)


\* C30: in every response built by _build_response, simulation_elements is
\* non-null exactly when missing_for_simulation is null, which is exactly when
\* all six source elements a, e, i, w, om, ma are present in the payload; then
\* the record holds a converted to km (the AU value times 149597870.7), e, i,
\* omega = w, Omega = om, M0 = ma and mu = 1.32712440018e11; otherwise
\* missing_for_simulation lists exactly the absent source keys.
SourcePresent(payload, name) ==
    \E k \in DOMAIN payload : payload[k].name = name /\ payload[k].value # None

SourceValue(payload, name) ==
    LET value == (CHOOSE k \in DOMAIN payload : payload[k].name = name /\ payload[k].value # None)
    IN  IF payload[value].value.kind = "num" THEN payload[value].value.v
        ELSE payload[value].value.text[1]

C30_SimulationElementsOrMissing ==
    (pc = "response_built") =>
        LET allPresent == \A k \in 1..Len(required_keys) : SourcePresent(req, required_keys[k])
            sim        == response.simulation_elements
            missing    == response.missing_for_simulation
        IN  /\ (sim # None) <=> (missing = None)
            /\ (missing = None) <=> allPresent
            /\ allPresent =>
                   /\ DOMAIN sim = {"a", "e", "i", "omega", "Omega", "M0", "mu"}
                   /\ sim.a[3] * 1000000 + sim.a[2] * 100 + (sim.a[1] \div 100)
                          = SourceValue(req, "a") * 14959787
                                + ((SourceValue(req, "a") * 7) \div 100)
                   /\ sim.a[1] % 100 = (SourceValue(req, "a") * 7) % 100
                   /\ sim.e = SourceValue(req, "e")
                   /\ sim.i = SourceValue(req, "i")
                   /\ sim.omega = SourceValue(req, "w")
                   /\ sim.Omega = SourceValue(req, "om")
                   /\ sim.M0 = SourceValue(req, "ma")
                   /\ sim.mu = 132712
            /\ ~allPresent =>
                   /\ missing.kind = "list"
                   /\ \A name \in {"a", "e", "i", "w", "om", "ma"} :
                          (~SourcePresent(req, name)) <=>
                              (Cardinality({k \in DOMAIN missing.items :
                                                missing.items[k] = name}) = 1)
                   /\ \A k \in DOMAIN missing.items :
                          missing.items[k] \in {"a", "e", "i", "w", "om", "ma"}

\* a response built from a payload with all six elements, the node given as
\* the number 0 and the semi-major axis as a string
C30_Witness ==
    /\ pc = "response_built"
    /\ response.simulation_elements # None
    /\ \E k \in DOMAIN req : req[k].name = "om" /\ req[k].value = Num(0)
    /\ \E k \in DOMAIN req : req[k].name = "a" /\ req[k].value.kind = "str"

====
